---- MODULE Spec2Model ----
(***************************************************************************)
(* Model of mite_cli.py: the duration codec, the name resolver, the        *)
(* off-day computation and the command flow of main().                     *)
(*                                                                         *)
(* Text is a sequence of one-character strings.  A calendar date is the    *)
(* number of days since 2025-01-01 (a Wednesday); ISO date strings order   *)
(* the same way as these day numbers.                                      *)
(***************************************************************************)
EXTENDS Integers, Sequences, FiniteSets, TLC

(***************************************************************************)
(* Bounds of the exploration                                               *)
(***************************************************************************)
MaxLen == 4
MaxMinutes == 1500
MaxCands == 3
MaxDay == 9
MaxEntries == 2
MaxRequests == 3

(***************************************************************************)
(* Text helpers                                                            *)
(***************************************************************************)
DigitChars == {"0", "1", "2", "3", "4", "5", "6", "7", "8", "9"}

DigitVal(c) ==
  CASE c = "0" -> 0 [] c = "1" -> 1 [] c = "2" -> 2 [] c = "3" -> 3
    [] c = "4" -> 4 [] c = "5" -> 5 [] c = "6" -> 6 [] c = "7" -> 7
    [] c = "8" -> 8 [] c = "9" -> 9

DigitChar(d) ==
  CASE d = 0 -> "0" [] d = 1 -> "1" [] d = 2 -> "2" [] d = 3 -> "3"
    [] d = 4 -> "4" [] d = 5 -> "5" [] d = 6 -> "6" [] d = 7 -> "7"
    [] d = 8 -> "8" [] d = 9 -> "9"

RECURSIVE Pow10(_)
Pow10(n) == IF n = 0 THEN 1 ELSE 10 * Pow10(n - 1)

\* f"{n}" for an integer n
RECURSIVE NatToStr(_)
NatToStr(n) ==
  IF n < 10 THEN <<DigitChar(n)>>
  ELSE NatToStr(n \div 10) \o <<DigitChar(n % 10)>>

IntToStr(n) == IF n < 0 THEN <<"-">> \o NatToStr(0 - n) ELSE NatToStr(n)

\* value of a sequence of decimal digits
RECURSIVE DigitsVal(_)
DigitsVal(s) ==
  IF s = <<>> THEN 0
  ELSE 10 * DigitsVal(SubSeq(s, 1, Len(s) - 1)) + DigitVal(s[Len(s)])

\* str.strip(): whitespace removed at both ends
RECURSIVE LStrip(_)
LStrip(s) == IF s # <<>> /\ s[1] = " " THEN LStrip(Tail(s)) ELSE s

RECURSIVE RStrip(_)
RStrip(s) ==
  IF s # <<>> /\ s[Len(s)] = " " THEN RStrip(SubSeq(s, 1, Len(s) - 1)) ELSE s

Strip(s) == RStrip(LStrip(s))

\* c in s
Contains(s, c) == \E i \in 1..Len(s) : s[i] = c

\* s.replace(c, '')
RECURSIVE RemoveChar(_, _)
RemoveChar(s, c) ==
  IF s = <<>> THEN <<>>
  ELSE IF s[1] = c THEN RemoveChar(Tail(s), c)
  ELSE <<s[1]>> \o RemoveChar(Tail(s), c)

\* s.split(c): the pieces between the occurrences of c
RECURSIVE Split(_, _)
Split(s, c) ==
  IF ~Contains(s, c) THEN <<s>>
  ELSE LET i == CHOOSE k \in 1..Len(s) :
                  s[k] = c /\ \A j \in 1..(k - 1) : s[j] # c
       IN <<SubSeq(s, 1, i - 1)>> \o Split(SubSeq(s, i + 1, Len(s)), c)

\* sign and body of a numeric literal, after the surrounding whitespace
SignOf(t) == IF t # <<>> /\ t[1] = "-" THEN 0 - 1 ELSE 1
Unsigned(t) == IF t # <<>> /\ t[1] \in {"+", "-"} THEN Tail(t) ELSE t

\* digits, single underscores allowed between two digits
DigitRun(u) ==
  /\ u # <<>>
  /\ \A i \in 1..Len(u) : u[i] \in DigitChars \cup {"_"}
  /\ u[1] # "_" /\ u[Len(u)] # "_"
  /\ \A i \in 1..(Len(u) - 1) : ~(u[i] = "_" /\ u[i + 1] = "_")

\* int(s) does not raise ValueError
IntValid(s) == DigitRun(Unsigned(Strip(s)))

\* int(s)
IntValue(s) ==
  SignOf(Strip(s)) * DigitsVal(RemoveChar(Unsigned(Strip(s)), "_"))

(***************************************************************************)
(* float(s) and float * 60 in IEEE-754 binary64, round to nearest even.    *)
(* The 53-bit significand and the exact intermediate values are unbounded  *)
(* naturals kept as sequences of 16-bit limbs, least significant first.    *)
(***************************************************************************)
MantissaBits == 53
LimbBits == 16

RECURSIVE Pow2(_)
Pow2(n) == IF n = 0 THEN 1 ELSE 2 * Pow2(n - 1)

LimbBase == Pow2(LimbBits)

RECURSIVE BitLen(_)
BitLen(n) == IF n = 0 THEN 0 ELSE 1 + BitLen(n \div 2)

\* drop the zero limbs at the significant end
RECURSIVE BigTrim(_)
BigTrim(a) ==
  IF a # <<>> /\ a[Len(a)] = 0 THEN BigTrim(SubSeq(a, 1, Len(a) - 1)) ELSE a

RECURSIVE BigFromInt(_)
BigFromInt(n) ==
  IF n = 0 THEN <<>> ELSE <<n % LimbBase>> \o BigFromInt(n \div LimbBase)

RECURSIVE BigToInt(_)
BigToInt(a) == IF a = <<>> THEN 0 ELSE a[1] + LimbBase * BigToInt(Tail(a))

BigBitLen(a) ==
  LET t == BigTrim(a)
  IN IF t = <<>> THEN 0 ELSE LimbBits * (Len(t) - 1) + BitLen(t[Len(t)])

\* a * m for a small m
RECURSIVE BigMulSmall(_, _, _)
BigMulSmall(a, m, carry) ==
  IF a = <<>> THEN BigFromInt(carry)
  ELSE LET t == a[1] * m + carry
       IN <<t % LimbBase>> \o BigMulSmall(Tail(a), m, t \div LimbBase)

\* quotient and remainder of a by a small d, most significant limb first
RECURSIVE BigDivSmall(_, _, _)
BigDivSmall(a, d, rem) ==
  IF a = <<>> THEN [q |-> <<>>, r |-> rem]
  ELSE LET t    == rem * LimbBase + a[Len(a)]
           rest == BigDivSmall(SubSeq(a, 1, Len(a) - 1), d, t % d)
       IN [q |-> rest.q \o <<t \div d>>, r |-> rest.r]

\* a * 2^k
BigShl(a, k) ==
  [i \in 1..(k \div LimbBits) |-> 0] \o BigMulSmall(a, Pow2(k % LimbBits), 0)

\* floor(a / 2^k)
BigShr(a, k) ==
  LET whole == k \div LimbBits
  IN IF whole >= Len(a) THEN <<>>
     ELSE BigDivSmall(SubSeq(a, whole + 1, Len(a)), Pow2(k % LimbBits), 0).q

\* a + 1
RECURSIVE BigInc(_)
BigInc(a) ==
  IF a = <<>> THEN <<1>>
  ELSE IF a[1] + 1 < LimbBase THEN <<a[1] + 1>> \o Tail(a)
  ELSE <<0>> \o BigInc(Tail(a))

BigOdd(a) == a # <<>> /\ a[1] % 2 = 1

\* quotient q with remainder r of a division by d, rounded half to even
RoundHalfEven(q, r, d) ==
  IF 2 * r > d \/ (2 * r = d /\ BigOdd(q)) THEN BigInc(q) ELSE q

\* zero bits between the binary point and the first one bit of num/den
RECURSIVE LeadingZeros(_, _)
LeadingZeros(num, den) ==
  IF 2 * num >= den THEN 0 ELSE 1 + LeadingZeros(2 * num, den)

\* a binary64 magnitude is sig * 2^(-exp)
FloatZero == [sig |-> <<>>, exp |-> 0]

\* the double nearest to digits / den
FloatFromRatio(digits, den) ==
  IF digits = 0 THEN FloatZero
  ELSE LET ip  == digits \div den
           exp == IF ip > 0 THEN MantissaBits - BitLen(ip)
                  ELSE MantissaBits + LeadingZeros(digits, den)
           d   == BigDivSmall(BigShl(BigFromInt(digits), exp), den, 0)
       IN [sig |-> BigTrim(RoundHalfEven(BigTrim(d.q), d.r, den)),
           exp |-> exp]

\* the double nearest to x * k, for a small integer k
FloatMul(x, k) ==
  LET p     == BigTrim(BigMulSmall(x.sig, k, 0))
      shift == BigBitLen(p) - MantissaBits
  IN IF shift <= 0 THEN [sig |-> p, exp |-> x.exp]
     ELSE LET d == BigDivSmall(p, Pow2(shift), 0)
          IN [sig |-> BigTrim(RoundHalfEven(BigTrim(d.q), d.r, Pow2(shift))),
              exp |-> x.exp - shift]

\* int(x) for a magnitude x: the integer part
FloatTrunc(x) == BigToInt(BigShr(x.sig, x.exp))

\* float(s) does not raise ValueError: [sign] digits [. digits], one digit
\* at least
FloatValid(s) ==
  LET u     == Unsigned(Strip(s))
      parts == Split(u, ".")
  IN /\ Len(parts) <= 2
     /\ \A i \in 1..Len(parts) : parts[i] = <<>> \/ DigitRun(parts[i])
     /\ \E i \in 1..Len(parts) : parts[i] # <<>>

\* the magnitude of float(s)
FloatMagnitude(s) ==
  LET parts == Split(Unsigned(Strip(s)), ".")
      idig  == RemoveChar(parts[1], "_")
      fdig  == IF Len(parts) = 2 THEN RemoveChar(parts[2], "_") ELSE <<>>
  IN FloatFromRatio(DigitsVal(idig \o fdig), Pow10(Len(fdig)))

\* int(float(s) * 60): truncation toward zero
HoursToMinutes(s) ==
  SignOf(Strip(s)) * FloatTrunc(FloatMul(FloatMagnitude(s), 60))

(***************************************************************************)
(* Duration codec                                                          *)
(***************************************************************************)
Raised == [ok |-> FALSE, val |-> 0]
Returned(v) == [ok |-> TRUE, val |-> v]

\* variant: the hours are shown also when they are zero
format_duration_zero_hours(minutes) ==
  LET hours == minutes \div 60
      mins  == minutes % 60
  IN IF hours >= 0
     THEN IF mins > 0
          THEN IntToStr(hours) \o <<"h", " ">> \o IntToStr(mins) \o <<"m">>
          ELSE IntToStr(hours) \o <<"h">>
     ELSE IntToStr(mins) \o <<"m">>

format_duration(minutes) ==
  LET hours == minutes \div 60
      mins  == minutes % 60
  IN IF hours > 0
     THEN IF mins > 0
          THEN IntToStr(hours) \o <<"h", " ">> \o IntToStr(mins) \o <<"m">>
          ELSE IntToStr(hours) \o <<"h">>
     ELSE IntToStr(mins) \o <<"m">>

\* variant: the minutes replace the hours instead of adding to them
parse_minutes_part_assign(total_minutes, rest) ==
  IF Contains(rest, "m")
  THEN IF IntValid(RemoveChar(rest, "m"))
       THEN Returned(IntValue(RemoveChar(rest, "m")))
       ELSE Raised
  ELSE IF rest # <<>>
       THEN IF IntValid(rest) THEN Returned(IntValue(rest))
            ELSE Raised
  ELSE Returned(total_minutes)

\* the tail of parse_duration: the minutes part
parse_minutes_part(total_minutes, rest) ==
  IF Contains(rest, "m")
  THEN IF IntValid(RemoveChar(rest, "m"))
       THEN Returned(total_minutes + IntValue(RemoveChar(rest, "m")))
       ELSE Raised
  ELSE IF rest # <<>>
       THEN IF IntValid(rest) THEN Returned(total_minutes + IntValue(rest))
            ELSE Raised
  ELSE Returned(total_minutes)

parse_duration(text) ==
  LET s == Strip(text)
  IN IF IntValid(s) THEN Returned(IntValue(s))
     ELSE IF s # <<>> /\ s[Len(s)] = "h" /\ FloatValid(SubSeq(s, 1, Len(s) - 1))
          THEN Returned(HoursToMinutes(SubSeq(s, 1, Len(s) - 1)))
     ELSE IF Contains(s, "h")
          THEN LET parts == Split(s, "h")
               IN IF IntValid(parts[1])
                  THEN parse_minutes_part(IntValue(parts[1]) * 60, parts[2])
                  ELSE Raised
     ELSE parse_minutes_part(0, s)


(***************************************************************************)
(* Name resolver                                                           *)
(***************************************************************************)
NoneVal == [some |-> FALSE, val |-> 0]
Some(v) == [some |-> TRUE, val |-> v]

\* one character of str.lower()
LowerChar(c) ==
  CASE c = "A" -> "a" [] c = "B" -> "b" [] c = "C" -> "c" [] c = "D" -> "d"
    [] c = "E" -> "e" [] c = "F" -> "f" [] c = "G" -> "g" [] c = "H" -> "h"
    [] c = "I" -> "i" [] c = "J" -> "j" [] c = "K" -> "k" [] c = "L" -> "l"
    [] c = "M" -> "m" [] c = "N" -> "n" [] c = "O" -> "o" [] c = "P" -> "p"
    [] c = "Q" -> "q" [] c = "R" -> "r" [] c = "S" -> "s" [] c = "T" -> "t"
    [] c = "U" -> "u" [] c = "V" -> "v" [] c = "W" -> "w" [] c = "X" -> "x"
    [] c = "Y" -> "y" [] c = "Z" -> "z" [] OTHER -> c

Lower(s) == [i \in 1..Len(s) |-> LowerChar(s[i])]

\* a in b, for two texts
IsSubstring(a, b) ==
  \E i \in 0..(Len(b) - Len(a)) : SubSeq(b, i + 1, i + Len(a)) = a

\* for item in items: if item.name.lower() == name_lower: return item.id
RECURSIVE exact_pass(_, _, _)
exact_pass(items, name_lower, i) ==
  IF i > Len(items) THEN NoneVal
  ELSE IF Lower(items[i].name) = name_lower THEN Some(items[i].id)
  ELSE exact_pass(items, name_lower, i + 1)

\* for item in items: if name_lower in item.name.lower(): return item.id
RECURSIVE partial_pass(_, _, _)
partial_pass(items, name_lower, i) ==
  IF i > Len(items) THEN NoneVal
  ELSE IF IsSubstring(name_lower, Lower(items[i].name)) THEN Some(items[i].id)
  ELSE partial_pass(items, name_lower, i + 1)

\* variant: no exact pass, the first partial match wins
find_project_by_name_partial_only(projects, name) ==
  partial_pass(projects, Lower(name), 1)

find_project_by_name(projects, name) ==
  LET name_lower == Lower(name)
      exact      == exact_pass(projects, name_lower, 1)
  IN IF exact.some THEN exact ELSE partial_pass(projects, name_lower, 1)

find_service_by_name(services, name) ==
  LET name_lower == Lower(name)
      exact      == exact_pass(services, name_lower, 1)
  IN IF exact.some THEN exact ELSE partial_pass(services, name_lower, 1)

(***************************************************************************)
(* Dates and off days                                                      *)
(***************************************************************************)
\* the text 'N/A' that stands for a missing date_at: no ISO date, and
\* ordered after every ISO date as a string
NA_DATE == 9999

\* the empty text given as a date: no ISO date, ordered before every date
EMPTY_DATE == -1

\* datetime.strptime(d, '%Y-%m-%d') does not raise ValueError
strptime_ok(d) == d \notin {NA_DATE, EMPTY_DATE}

\* truth value of a date argument (None and '' are false)
DateGiven(opt) == opt.some /\ opt.val # EMPTY_DATE

\* date.weekday(): Monday = 0 ... Sunday = 6; day 0 is Wednesday 2025-01-01
Weekday(d) == (d + 2) % 7

SetMin(S) == CHOOSE m \in S : \A e \in S : m <= e
SetMax(S) == CHOOSE m \in S : \A e \in S : m >= e

OffRaised == [ok |-> FALSE, val |-> <<>>]

\* variant: Saturday counted as a working day
RECURSIVE off_days_loop_saturday(_, _, _, _)
off_days_loop_saturday(current, end_date, daily_totals, off_days) ==
  IF current > end_date THEN off_days
  ELSE off_days_loop_saturday(current + 1, end_date, daily_totals,
         IF Weekday(current) <= 5 /\ current \notin DOMAIN daily_totals
         THEN Append(off_days, current) ELSE off_days)

\* the while loop of find_off_days
RECURSIVE off_days_loop(_, _, _, _)
off_days_loop(current, end_date, daily_totals, off_days) ==
  IF current > end_date THEN off_days
  ELSE off_days_loop(current + 1, end_date, daily_totals,
         IF Weekday(current) < 5 /\ current \notin DOMAIN daily_totals
         THEN Append(off_days, current) ELSE off_days)

find_off_days(daily_totals, now) ==
  IF DOMAIN daily_totals = {} THEN [ok |-> TRUE, val |-> <<>>]
  ELSE IF \E d \in DOMAIN daily_totals : ~strptime_ok(d) THEN OffRaised
  ELSE LET start_date == SetMin(DOMAIN daily_totals)
           max_date   == SetMax(DOMAIN daily_totals)
           end_date   == IF max_date > now THEN now ELSE max_date
       IN [ok |-> TRUE,
           val |-> off_days_loop(start_date, end_date, daily_totals, <<>>)]


(***************************************************************************)
(* State                                                                   *)
(***************************************************************************)
VARIABLES
  pending,         \* library function about to be applied, "none" if none
  last_call,       \* library function applied last
  duration_str,    \* argument of parse_duration
  parsed,          \* its outcome: Returned(minutes) or Raised
  minutes_in,      \* argument of format_duration
  formatted,       \* its result
  candidates,      \* list fetched for a name resolution
  query,           \* name looked up
  found,           \* outcome of the resolution: Some(id) or NoneVal
  daily_totals,    \* date -> minutes
  today,           \* datetime.now().date()
  off_days,        \* outcome of find_off_days
  cells,           \* day cells of the monthly calendar rendered last
  pc,              \* position of main()
  args,            \* the parsed command line
  env,             \* environment variables, .env file, ~/.mite_config.json
  server,          \* what the Mite account holds
  net,             \* net[i]: the i-th HTTP request succeeds
  requests,        \* HTTP requests sent so far
  net_failed,      \* some request raised RequestException
  out,             \* what was printed, in order
  exit_code,       \* process exit status, once pc = "exit"
  raised,          \* an exception escaped main()
  config,          \* result of load_config
  minutes,         \* add: parsed duration
  project_id,      \* resolved project
  service_id,      \* resolved service
  at_filter,       \* timesheet: named period, "None" if none
  from_date,       \* timesheet: start of an explicit range
  to_date,         \* timesheet: end of an explicit range
  entries,         \* timesheet: fetched entries
  idx,             \* timesheet: position of the aggregation loop
  total_minutes,
  project_totals,
  service_totals,
  entries_by_date

libVars == <<pending, last_call, duration_str, parsed, minutes_in, formatted,
             candidates, query, found>>
offVars == <<daily_totals, today, off_days, cells>>
ioVars  == <<requests, net_failed, out, exit_code, raised>>
inVars  == <<args, env, server, net>>
addVars == <<minutes, service_id>>
aggVars == <<entries, idx, total_minutes, project_totals, service_totals,
             entries_by_date>>
tsVars  == <<at_filter, from_date, to_date>>

mainVars == <<pc, ioVars, inVars, config, addVars, project_id, tsVars,
              aggVars>>

vars == <<libVars, offVars, mainVars>>

(***************************************************************************)
(* Inputs of the library functions                                         *)
(***************************************************************************)
RECURSIVE TextsUpTo(_, _)
TextsUpTo(chars, n) ==
  IF n = 0 THEN {<<>>}
  ELSE LET shorter == TextsUpTo(chars, n - 1)
       IN shorter \cup {Append(t, c) : t \in shorter, c \in chars}

DurChars == {"1", "4", ".", "h", "m", "x", " ", "-"}

DurationExamples ==
  { <<"2", "h">>, <<"9", "0", "m">>, <<"1", "h", "3", "0", "m">>,
    <<"1", "h", "3", "0">>, <<"9", "0">>, <<"1", ".", "5", "h">>,
    <<"a", "b", "c">>, <<"x", "h", "3", "0">>, <<"+", "5">>,
    <<"1", "_", "0">>, <<"8", ".", "4", "5", "h">> }

DurationInputs == TextsUpTo(DurChars, MaxLen) \cup DurationExamples

AcmeCorp == <<"A", "c", "m", "e", " ", "C", "o", "r", "p">>
AcmeInc  == <<"A", "c", "m", "e", " ", "I", "n", "c">>
NamePool == {AcmeCorp, AcmeInc, <<"A", "C", "M", "E">>, <<"B", "e", "t", "a">>}

QueryPool ==
  { <<"a", "c", "m", "e", " ", "c", "o", "r", "p">>, <<"a", "c", "m", "e">>,
    <<"A", "c", "m", "e">>, <<"I", "N", "C">>, <<"z", "e", "t", "a">>,
    <<"e">> }

\* candidate lists as the API returns them: ids 1, 2, ... in list order
RECURSIVE NameListsUpTo(_)
NameListsUpTo(n) ==
  IF n = 0 THEN {<<>>}
  ELSE LET shorter == NameListsUpTo(n - 1)
       IN shorter \cup {Append(l, [name |-> nm, id |-> Len(l) + 1]) :
                          l \in shorter, nm \in NamePool}

CandidateLists == NameListsUpTo(MaxCands)

DayKeys == (0..MaxDay) \cup {NA_DATE}

\* calendar inputs: Wed 2025-01-01, Sat 2025-01-04, Mon 2025-01-06,
\* Tue 2025-02-04 and 'N/A'; totals on both sides of the 6h and 8h marks
CalendarKeys == {0, 3, 5, 34, NA_DATE}
TierMinutes == {0, 1, 359, 360, 479, 480}
CalendarTodays == {2, 5, 40}

(***************************************************************************)
(* main(): values and helpers                                              *)
(***************************************************************************)
NoneText == [some |-> FALSE, val |-> <<>>]
NoneName == [some |-> FALSE, val |-> ""]

\* truth value of an optional text (None and '' are false)
Truthy(opt) == opt.some /\ opt.val # <<>>

\* a or b
PyOr(a, b) == IF Truthy(a) THEN a ELSE b

\* variant: the new value replaces the stored one
DictAdd_overwrite(d, k, v) ==
  [x \in DOMAIN d \cup {k} |-> IF x = k THEN v ELSE d[x]]

\* d[k] = d.get(k, 0) + v, and defaultdict(int)[k] += v
DictAdd(d, k, v) ==
  [x \in DOMAIN d \cup {k} |->
     IF x = k THEN (IF k \in DOMAIN d THEN d[k] ELSE 0) + v ELSE d[x]]

\* defaultdict(list)[k].append(v)
DictAppend(d, k, v) ==
  [x \in DOMAIN d \cup {k} |->
     IF x = k THEN (IF k \in DOMAIN d THEN d[k] ELSE <<>>) \o <<v>> ELSE d[x]]

EmptyDict == <<>>

\* os.environ after load_dotenv(): .env fills the variables not yet set
EnvironAfterDotenv(e) ==
  [account |-> IF e.environ.account.some THEN e.environ.account
               ELSE e.dotenv.account,
   api_key |-> IF e.environ.api_key.some THEN e.environ.api_key
               ELSE e.dotenv.api_key]

\* variant: the stored file wins over the environment
load_config_file_first(e) ==
  LET environ == EnvironAfterDotenv(e)
  IN IF e.file.exists /\ e.file.valid
     THEN [account |-> PyOr(e.file.account, environ.account),
           api_key |-> PyOr(e.file.api_key, environ.api_key)]
     ELSE environ

load_config(e) ==
  LET environ == EnvironAfterDotenv(e)
  IN IF e.file.exists /\ e.file.valid
     THEN [account |-> PyOr(environ.account, e.file.account),
           api_key |-> PyOr(environ.api_key, e.file.api_key)]
     ELSE environ

\* the date filter of the timesheet command
ResolveFilter(a) ==
  IF DateGiven(a.from_date) /\ DateGiven(a.to_date)
  THEN [at_filter |-> "None", from_date |-> a.from_date, to_date |-> a.to_date,
        ok |-> strptime_ok(a.from_date.val) /\ strptime_ok(a.to_date.val)]
  ELSE [at_filter |-> IF a.yesterday THEN "yesterday"
                      ELSE IF a.week THEN "this_week"
                      ELSE IF a.last_week THEN "last_week"
                      ELSE IF a.month THEN "this_month"
                      ELSE IF a.last_month THEN "last_month"
                      ELSE "today",
        from_date |-> NoneVal, to_date |-> NoneVal, ok |-> TRUE]

\* variant: only last_month selects the calendar
ChooseView_last_month_only(filter, from, to) ==
  IF filter \in {"last_month"}
     \/ (from.some /\ to.some /\ to.val - from.val > 20)
  THEN "calendar" ELSE "table"

\* the view of the timesheet command
ChooseView(filter, from, to) ==
  IF filter \in {"this_month", "last_month"}
     \/ (from.some /\ to.some /\ to.val - from.val > 20)
  THEN "calendar" ELSE "table"

\* display_monthly_calendar raises: the earliest key is no date
CalendarRaises(totals) == ~strptime_ok(SetMin(DOMAIN totals))

\* first and last day of the month of day d (January to March 2025)
MonthFirst(d) == IF d < 31 THEN 0 ELSE IF d < 59 THEN 31 ELSE 59
MonthLast(d) == IF d < 31 THEN 30 ELSE IF d < 59 THEN 58 ELSE 89

\* the cell of one day of the calendar.  hours = minutes / 60 is compared
\* with 8 and 6: for integer minutes the quotient is >= 8 exactly when
\* minutes >= 480, and >= 6 exactly when minutes >= 360
CellTier(day, totals, now) ==
  IF day \in DOMAIN totals
  THEN IF totals[day] >= 8 * 60 THEN "done"
       ELSE IF totals[day] >= 6 * 60 THEN "partial"
       ELSE "light"
  ELSE IF Weekday(day) < 5
       THEN IF day > now THEN "dim" ELSE "off"
       ELSE "dim"

NoCells == <<>>

\* the cells display_monthly_calendar fills, one per day of the month of
\* the earliest key
display_monthly_calendar(totals, now) ==
  IF totals = EmptyDict THEN [ok |-> TRUE, cells |-> NoCells]
  ELSE IF CalendarRaises(totals) THEN [ok |-> FALSE, cells |-> NoCells]
  ELSE LET first_date == SetMin(DOMAIN totals)
       IN [ok |-> TRUE,
           cells |-> [day \in MonthFirst(first_date)..MonthLast(first_date)
                        |-> CellTier(day, totals, now)]]

\* what display_summary_stats prints, and whether it raises
display_summary_stats(total, daily, by_project, by_service, now) ==
  IF daily # EmptyDict /\ ~find_off_days(daily, now).ok
  THEN [out |-> <<>>, raised |-> TRUE]
  ELSE IF Cardinality(DOMAIN by_project) > 1 /\ total = 0
  THEN [out |-> <<"summary">>, raised |-> TRUE]
  ELSE LET p == IF Cardinality(DOMAIN by_project) > 1
                THEN <<"project_table">> ELSE <<>>
       IN IF Cardinality(DOMAIN by_service) > 1 /\ total = 0
          THEN [out |-> <<"summary">> \o p, raised |-> TRUE]
          ELSE [out |-> <<"summary">> \o p \o
                        (IF Cardinality(DOMAIN by_service) > 1
                         THEN <<"service_table">> ELSE <<>>),
                raised |-> FALSE]

\* the fields of a fetched entry, with the defaults of entry.get
EntryDate(e) == IF e.date_at.some THEN e.date_at.val ELSE NA_DATE
EntryMinutes(e) == IF e.minutes.some THEN e.minutes.val ELSE 0
EntryProject(e) == IF e.project_name.some THEN e.project_name.val ELSE "No project"
EntryService(e) == IF e.service_name.some THEN e.service_name.val ELSE "No service"

BaseArgs ==
  [command |-> "none", resource |-> "projects", duration |-> <<>>,
   date |-> NoneVal, project |-> NoneText, service |-> NoneText,
   today |-> FALSE, yesterday |-> FALSE, week |-> FALSE, last_week |-> FALSE,
   month |-> FALSE, last_month |-> FALSE,
   from_date |-> NoneVal, to_date |-> NoneVal,
   account |-> <<"a">>, api_key |-> <<"k">>]

NoCredentials == [account |-> NoneText, api_key |-> NoneText]
NoFile == [exists |-> FALSE, valid |-> FALSE,
           account |-> NoneText, api_key |-> NoneText]

\* main() before its first statement
MainIdle ==
  /\ requests = <<>>
  /\ net_failed = FALSE
  /\ out = <<>>
  /\ exit_code = 0
  /\ raised = FALSE
  /\ config = NoCredentials
  /\ minutes = 0
  /\ project_id = NoneVal
  /\ service_id = NoneVal
  /\ at_filter = "None"
  /\ from_date = NoneVal
  /\ to_date = NoneVal
  /\ entries = <<>>
  /\ idx = 0
  /\ total_minutes = 0
  /\ project_totals = EmptyDict
  /\ service_totals = EmptyDict
  /\ entries_by_date = EmptyDict

\* no program is run
MainAbsent ==
  /\ MainIdle
  /\ pc = "none"
  /\ args = BaseArgs
  /\ env = [environ |-> NoCredentials, dotenv |-> NoCredentials,
            file |-> NoFile, writable |-> TRUE]
  /\ server = [projects |-> <<>>, services |-> <<>>, time_entries |-> <<>>]
  /\ net = [i \in 1..MaxRequests |-> TRUE]

(***************************************************************************)
(* Library calls: the arguments are drawn at the start, one action applies *)
(* the function                                                            *)
(***************************************************************************)
LibIdle ==
  /\ pending = "none"
  /\ last_call = "none"
  /\ duration_str = <<>>
  /\ parsed = Raised
  /\ minutes_in = 0
  /\ formatted = <<>>
  /\ candidates = <<>>
  /\ query = <<>>
  /\ found = NoneVal

InitLib ==
  /\ MainAbsent
  /\ last_call = "none"
  /\ parsed = Raised
  /\ formatted = <<>>
  /\ found = NoneVal
  /\ off_days = OffRaised
  /\ cells = NoCells
  /\ pending \in {"parse_duration", "format_duration", "find_project_by_name",
                  "find_service_by_name", "find_off_days",
                  "display_monthly_calendar"}
  /\ IF pending = "parse_duration"
     THEN duration_str \in DurationInputs ELSE duration_str = <<>>
  /\ IF pending = "format_duration"
     THEN minutes_in \in 0..MaxMinutes ELSE minutes_in = 0
  /\ IF pending \in {"find_project_by_name", "find_service_by_name"}
     THEN candidates \in CandidateLists /\ query \in QueryPool
     ELSE candidates = <<>> /\ query = <<>>
  /\ IF pending = "find_off_days"
     THEN /\ \E keys \in SUBSET DayKeys, m \in {0, 480} :
               daily_totals = [d \in keys |-> m]
          /\ today \in 0..(MaxDay + 1)
     ELSE IF pending = "display_monthly_calendar"
     THEN /\ \E keys \in SUBSET CalendarKeys :
               daily_totals \in [keys -> TierMinutes]
          /\ today \in CalendarTodays
     ELSE daily_totals = <<>> /\ today = 0

CallParseDuration ==
  /\ pending = "parse_duration"
  /\ pending' = "none"
  /\ last_call' = "parse_duration"
  /\ parsed' = parse_duration(duration_str)
  /\ UNCHANGED <<duration_str, minutes_in, formatted, candidates, query,
                 found, offVars, mainVars>>

CallFormatDuration ==
  /\ pending = "format_duration"
  /\ pending' = "parse_formatted"
  /\ last_call' = "format_duration"
  /\ formatted' = format_duration(minutes_in)
  /\ UNCHANGED <<duration_str, parsed, minutes_in, candidates, query, found,
                 offVars, mainVars>>

\* the formatted text, its space removed, parsed again
CallParseFormatted ==
  /\ pending = "parse_formatted"
  /\ pending' = "none"
  /\ last_call' = "parse_formatted"
  /\ duration_str' = RemoveChar(formatted, " ")
  /\ parsed' = parse_duration(RemoveChar(formatted, " "))
  /\ UNCHANGED <<minutes_in, formatted, candidates, query, found, offVars,
                 mainVars>>

CallFindProject ==
  /\ pending = "find_project_by_name"
  /\ pending' = "none"
  /\ last_call' = "find_project_by_name"
  /\ found' = find_project_by_name(candidates, query)
  /\ UNCHANGED <<duration_str, parsed, minutes_in, formatted, candidates,
                 query, offVars, mainVars>>

CallFindService ==
  /\ pending = "find_service_by_name"
  /\ pending' = "none"
  /\ last_call' = "find_service_by_name"
  /\ found' = find_service_by_name(candidates, query)
  /\ UNCHANGED <<duration_str, parsed, minutes_in, formatted, candidates,
                 query, offVars, mainVars>>

CallFindOffDays ==
  /\ pending = "find_off_days"
  /\ pending' = "none"
  /\ last_call' = "find_off_days"
  /\ off_days' = find_off_days(daily_totals, today)
  /\ UNCHANGED <<duration_str, parsed, minutes_in, formatted, candidates,
                 query, found, daily_totals, today, cells, mainVars>>

CallCalendar ==
  /\ pending = "display_monthly_calendar"
  /\ pending' = "none"
  /\ last_call' = "display_monthly_calendar"
  /\ cells' = display_monthly_calendar(daily_totals, today).cells
  /\ UNCHANGED <<duration_str, parsed, minutes_in, formatted, candidates,
                 query, found, daily_totals, today, off_days, mainVars>>

NextLib ==
  \/ CallParseDuration
  \/ CallFormatDuration
  \/ CallParseFormatted
  \/ CallFindProject
  \/ CallFindService
  \/ CallFindOffDays
  \/ CallCalendar

SpecLib == InitLib /\ [][NextLib]_vars


(***************************************************************************)
(* main(): one invocation of the program, statement group by statement     *)
(* group                                                                   *)
(***************************************************************************)
\* the k-th request from here succeeds
ReqOk(k) == net[Len(requests) + k]

\* requests.get / requests.post, once per element of ops
Send(ops) ==
  /\ requests' = requests \o ops
  /\ net_failed' = (net_failed \/ \E k \in 1..Len(ops) : ~ReqOk(k))

\* what the k-th request from here leaves: the list, or [] and a message
Fetched(k, list) == IF ReqOk(k) THEN list ELSE <<>>
FetchError(k, message) == IF ReqOk(k) THEN <<>> ELSE <<message>>

\* print, then go on at position p
Goto(p, printed) ==
  /\ pc' = p
  /\ out' = out \o printed
  /\ exit_code' = exit_code

\* print, then sys.exit(code); falling off the end of main() is exit 0
SysExit(code, printed) ==
  /\ pc' = "exit"
  /\ out' = out \o printed
  /\ exit_code' = code

FirstStep(command) ==
  IF command = "list" THEN "list"
  ELSE IF command = "add" THEN "add_parse" ELSE "ts_filter"

\* no command, the config command, load_config and the credentials check
Start ==
  /\ pc = "start"
  /\ IF args.command = "none"
     THEN /\ SysExit(1, <<"help">>)
          /\ UNCHANGED <<config, env>>
     ELSE IF args.command = "config"
     THEN /\ SysExit(0, IF env.writable THEN <<"config_saved">>
                        ELSE <<"error_saving_config">>)
          /\ env' = IF env.writable
                    THEN [env EXCEPT !.file =
                            [exists |-> TRUE, valid |-> TRUE,
                             account |-> Some(args.account),
                             api_key |-> Some(args.api_key)]]
                    ELSE env
          /\ UNCHANGED config
     ELSE LET c == load_config(env)
              warned == IF env.file.exists /\ ~env.file.valid
                        THEN <<"error_loading_config">> ELSE <<>>
          IN /\ config' = c
             /\ IF ~Truthy(c.account) \/ ~Truthy(c.api_key)
                THEN SysExit(1, warned \o <<"credentials_error">>)
                ELSE Goto(FirstStep(args.command), warned)
             /\ UNCHANGED env
  /\ UNCHANGED <<libVars, offVars, requests, net_failed, raised, args, server,
                 net, addVars, project_id, tsVars, aggVars>>

\* list projects | list services
ListCmd ==
  /\ pc = "list"
  /\ IF args.resource = "projects"
     THEN /\ Send(<<"get_projects">>)
          /\ SysExit(0, FetchError(1, "error_fetching_projects") \o
                        (IF Fetched(1, server.projects) # <<>>
                         THEN <<"projects_list">> ELSE <<"no_projects">>))
     ELSE /\ Send(<<"get_services">>)
          /\ SysExit(0, FetchError(1, "error_fetching_services") \o
                        (IF Fetched(1, server.services) # <<>>
                         THEN <<"services_list">> ELSE <<"no_services">>))
  /\ UNCHANGED <<libVars, offVars, raised, inVars, config, addVars,
                 project_id, tsVars, aggVars>>

\* add: minutes = parse_duration(args.duration)
AddParse ==
  /\ pc = "add_parse"
  /\ LET r == parse_duration(args.duration)
     IN IF r.ok
        THEN minutes' = r.val /\ Goto("add_date", <<>>)
        ELSE minutes' = minutes /\ SysExit(1, <<"error_duration">>)
  /\ UNCHANGED <<libVars, offVars, requests, net_failed, raised, inVars,
                 config, service_id, project_id, tsVars, aggVars>>

\* add: the format check of --date
AddDate ==
  /\ pc = "add_date"
  /\ IF DateGiven(args.date) /\ ~strptime_ok(args.date.val)
     THEN SysExit(1, <<"error_date">>)
     ELSE Goto("add_project", <<>>)
  /\ UNCHANGED <<libVars, offVars, requests, net_failed, raised, inVars,
                 config, addVars, project_id, tsVars, aggVars>>

\* add: --project as an id, else by name; not found lists the projects
AddProject ==
  /\ pc = "add_project"
  /\ IF ~Truthy(args.project)
     THEN /\ project_id' = NoneVal
          /\ Goto("add_service", <<>>)
          /\ UNCHANGED <<requests, net_failed>>
     ELSE IF IntValid(args.project.val)
     THEN /\ project_id' = Some(IntValue(args.project.val))
          /\ Goto("add_service", <<>>)
          /\ UNCHANGED <<requests, net_failed>>
     ELSE LET id == find_project_by_name(Fetched(1, server.projects),
                                         args.project.val)
              e1 == FetchError(1, "error_fetching_projects")
          IN /\ project_id' = id
             /\ IF id.some
                THEN Send(<<"get_projects">>) /\ Goto("add_service", e1)
                ELSE /\ Send(<<"get_projects", "get_projects">>)
                     /\ SysExit(1, e1 \o <<"error_no_project",
                                          "available_projects">> \o
                                   FetchError(2, "error_fetching_projects"))
  /\ UNCHANGED <<libVars, offVars, raised, inVars, config, addVars, tsVars,
                 aggVars>>

\* add: --service as an id, else by name; not found lists the services
AddService ==
  /\ pc = "add_service"
  /\ IF ~Truthy(args.service)
     THEN /\ service_id' = NoneVal
          /\ Goto("add_create", <<>>)
          /\ UNCHANGED <<requests, net_failed>>
     ELSE IF IntValid(args.service.val)
     THEN /\ service_id' = Some(IntValue(args.service.val))
          /\ Goto("add_create", <<>>)
          /\ UNCHANGED <<requests, net_failed>>
     ELSE LET id == find_service_by_name(Fetched(1, server.services),
                                         args.service.val)
              e1 == FetchError(1, "error_fetching_services")
          IN /\ service_id' = id
             /\ IF id.some
                THEN Send(<<"get_services">>) /\ Goto("add_create", e1)
                ELSE /\ Send(<<"get_services", "get_services">>)
                     /\ SysExit(1, e1 \o <<"error_no_service",
                                          "available_services">> \o
                                   FetchError(2, "error_fetching_services"))
  /\ UNCHANGED <<libVars, offVars, raised, inVars, config, minutes,
                 project_id, tsVars, aggVars>>

\* add: client.create_time_entry and the report of the created entry
AddCreate ==
  /\ pc = "add_create"
  /\ Send(<<"create_time_entry">>)
  /\ IF ReqOk(1)
     THEN SysExit(0, <<"created">>)
     ELSE SysExit(1, <<"error_creating">>)
  /\ UNCHANGED <<libVars, offVars, raised, inVars, config, addVars,
                 project_id, tsVars, aggVars>>

\* timesheet: the date filter
TsFilter ==
  /\ pc = "ts_filter"
  /\ LET f == ResolveFilter(args)
     IN /\ at_filter' = f.at_filter
        /\ from_date' = f.from_date
        /\ to_date' = f.to_date
        /\ IF f.ok THEN Goto("ts_project", <<>>)
           ELSE SysExit(1, <<"error_dates">>)
  /\ UNCHANGED <<libVars, offVars, requests, net_failed, raised, inVars,
                 config, addVars, project_id, aggVars>>

\* timesheet: --project as an id, else by name
TsProject ==
  /\ pc = "ts_project"
  /\ IF ~Truthy(args.project)
     THEN /\ project_id' = NoneVal
          /\ Goto("ts_fetch", <<>>)
          /\ UNCHANGED <<requests, net_failed>>
     ELSE IF IntValid(args.project.val)
     THEN /\ project_id' = Some(IntValue(args.project.val))
          /\ Goto("ts_fetch", <<>>)
          /\ UNCHANGED <<requests, net_failed>>
     ELSE LET id == find_project_by_name(Fetched(1, server.projects),
                                         args.project.val)
              e1 == FetchError(1, "error_fetching_projects")
          IN /\ project_id' = id
             /\ Send(<<"get_projects">>)
             /\ IF id.some THEN Goto("ts_fetch", e1)
                ELSE SysExit(1, e1 \o <<"error_no_project">>)
  /\ UNCHANGED <<libVars, offVars, raised, inVars, config, addVars, tsVars,
                 aggVars>>

\* timesheet: client.get_time_entries and the empty answer
TsFetch ==
  /\ pc = "ts_fetch"
  /\ Send(<<"get_time_entries">>)
  /\ entries' = Fetched(1, server.time_entries)
  /\ IF Fetched(1, server.time_entries) = <<>>
     THEN SysExit(0, FetchError(1, "error_fetching_entries") \o
                     <<"not_found">>)
     ELSE Goto("ts_loop", <<>>)
  /\ UNCHANGED <<libVars, offVars, raised, inVars, config, addVars,
                 project_id, tsVars, idx, total_minutes, project_totals,
                 service_totals, entries_by_date>>

\* timesheet: one round of for entry_data in entries
TsLoop ==
  /\ pc = "ts_loop"
  /\ idx < Len(entries)
  /\ LET entry == entries[idx + 1]
     IN /\ total_minutes' = total_minutes + EntryMinutes(entry)
        /\ daily_totals' =
             DictAdd(daily_totals, EntryDate(entry), EntryMinutes(entry))
        /\ project_totals' =
             DictAdd(project_totals, EntryProject(entry), EntryMinutes(entry))
        /\ service_totals' =
             DictAdd(service_totals, EntryService(entry), EntryMinutes(entry))
        /\ entries_by_date' =
             DictAppend(entries_by_date, EntryDate(entry),
                        [minutes |-> EntryMinutes(entry),
                         project |-> EntryProject(entry),
                         service |-> EntryService(entry)])
  /\ idx' = idx + 1
  /\ Goto(IF idx + 1 = Len(entries) THEN "ts_view" ELSE "ts_loop", <<>>)
  /\ UNCHANGED <<libVars, today, off_days, cells, requests, net_failed, raised,
                 inVars, config, addVars, project_id, tsVars, entries>>

\* timesheet: display_monthly_calendar or display_timesheet_table
TsView ==
  /\ pc = "ts_view"
  /\ LET view == ChooseView(at_filter, from_date, to_date)
         shown == display_monthly_calendar(daily_totals, today)
     IN IF view = "calendar"
        THEN IF shown.ok
             THEN /\ cells' = shown.cells
                  /\ raised' = raised
                  /\ Goto("ts_summary", <<view>>)
             ELSE /\ cells' = cells
                  /\ raised' = TRUE
                  /\ SysExit(1, <<>>)
        ELSE /\ cells' = cells
             /\ raised' = raised
             /\ Goto("ts_summary", <<view>>)
  /\ UNCHANGED <<libVars, daily_totals, today, off_days, requests,
                 net_failed, inVars, config, addVars, project_id, tsVars,
                 aggVars>>

\* timesheet: display_summary_stats, the last statement of main()
TsSummary ==
  /\ pc = "ts_summary"
  /\ LET r == display_summary_stats(total_minutes, daily_totals,
                                    project_totals, service_totals, today)
     IN /\ raised' = r.raised
        /\ SysExit(IF r.raised THEN 1 ELSE 0, r.out)
  /\ UNCHANGED <<libVars, offVars, requests, net_failed, inVars, config,
                 addVars, project_id, tsVars, aggVars>>

NextMain ==
  \/ Start
  \/ ListCmd
  \/ AddParse
  \/ AddDate
  \/ AddProject
  \/ AddService
  \/ AddCreate
  \/ TsFilter
  \/ TsProject
  \/ TsFetch
  \/ TsLoop
  \/ TsView
  \/ TsSummary

(***************************************************************************)
(* Invocations: command line, credentials, account contents and network    *)
(***************************************************************************)
Text(opt) == [some |-> TRUE, val |-> opt]
Creds(a, k) == [account |-> a, api_key |-> k]

EnvOk ==
  [environ |-> Creds(Text(<<"a">>), Text(<<"k">>)), dotenv |-> NoCredentials,
   file |-> NoFile, writable |-> TRUE]

FileWith(a, k) == [exists |-> TRUE, valid |-> TRUE, account |-> a, api_key |-> k]

EnvChoices ==
  { EnvOk,
    [EnvOk EXCEPT !.writable = FALSE],
    [EnvOk EXCEPT !.environ = NoCredentials],
    [EnvOk EXCEPT !.environ = NoCredentials,
                  !.dotenv = Creds(Text(<<"d">>), Text(<<"k">>))],
    [EnvOk EXCEPT !.environ = NoCredentials,
                  !.file = FileWith(Text(<<"f">>), Text(<<"k">>))],
    [EnvOk EXCEPT !.environ = NoCredentials,
                  !.dotenv = Creds(Text(<<"d">>), Text(<<"k">>)),
                  !.file = FileWith(Text(<<"f">>), Text(<<"k">>))],
    [EnvOk EXCEPT !.environ = NoCredentials,
                  !.file = [NoFile EXCEPT !.exists = TRUE]],
    [EnvOk EXCEPT !.file = FileWith(Text(<<"f">>), Text(<<"k">>))],
    [EnvOk EXCEPT !.environ = Creds(Text(<<>>), Text(<<"k">>)),
                  !.file = FileWith(Text(<<"f">>), NoneText)],
    [EnvOk EXCEPT !.environ = Creds(Text(<<"a">>), NoneText),
                  !.file = FileWith(NoneText, NoneText)] }

Named(v) == [some |-> TRUE, val |-> v]

\* fetched entries: each field present or missing
EntryKinds ==
  [date_at : {NoneVal, Some(0), Some(2)},
   minutes : {NoneVal, Some(45)},
   project_name : {NoneName, Named("Acme")},
   service_name : {NoneName, Named("Dev")}]

RECURSIVE EntryListsUpTo(_)
EntryListsUpTo(n) ==
  IF n = 0 THEN {<<>>}
  ELSE LET shorter == EntryListsUpTo(n - 1)
       IN shorter \cup {Append(l, e) : l \in shorter, e \in EntryKinds}

DatedEntry ==
  [date_at |-> Some(2), minutes |-> Some(45), project_name |-> Named("Acme"),
   service_name |-> Named("Dev")]
UndatedEntry == [DatedEntry EXCEPT !.date_at = NoneVal]

FullServer ==
  [projects |-> <<[name |-> AcmeCorp, id |-> 1], [name |-> AcmeInc, id |-> 2]>>,
   services |-> <<[name |-> <<"D", "e", "v">>, id |-> 1]>>,
   time_entries |-> <<DatedEntry>>]
EmptyServer == [projects |-> <<>>, services |-> <<>>, time_entries |-> <<>>]

AllOk == [i \in 1..MaxRequests |-> TRUE]

Timesheet == [BaseArgs EXCEPT !.command = "timesheet"]

\* timesheet over a fetched list: the default period and --month
AggArgs == {Timesheet, [Timesheet EXCEPT !.month = TRUE]}

\* --from: none, 2025-01-01, not a date; --to: none, 2025-01-05, 2025-01-21,
\* 2025-01-22, 2025-02-01
FromChoices == {NoneVal, Some(0), Some(NA_DATE)}
ToChoices == {NoneVal, Some(4), Some(20), Some(21), Some(31)}

\* every combination of the period flags
ViewArgs ==
  {[Timesheet EXCEPT !.today = t, !.yesterday = y, !.week = w,
                     !.last_week = lw, !.month = m, !.last_month = lm,
                     !.from_date = f, !.to_date = u] :
     t \in BOOLEAN, y \in BOOLEAN, w \in BOOLEAN, lw \in BOOLEAN,
     m \in BOOLEAN, lm \in BOOLEAN, f \in FromChoices, u \in ToChoices}

ProjectChoices ==
  {NoneText, Text(<<"7">>), Text(<<"a", "c", "m", "e">>),
   Text(<<"z", "e", "t", "a">>)}
ServiceChoices == {NoneText, Text(<<"d", "e", "v">>), Text(<<"z", "e", "t", "a">>)}

AddArgs ==
  {[BaseArgs EXCEPT !.command = "add", !.duration = d, !.date = dt,
                    !.project = p, !.service = s] :
     d \in {<<"1", "h">>, <<"x">>, <<>>, <<"1", "h", "h">>},
     dt \in {NoneVal, Some(1), Some(NA_DATE), Some(EMPTY_DATE)},
     p \in ProjectChoices, s \in ServiceChoices}

CliArgs ==
  {BaseArgs, [BaseArgs EXCEPT !.command = "config"],
   [BaseArgs EXCEPT !.command = "list"],
   [BaseArgs EXCEPT !.command = "list", !.resource = "services"]}
  \cup AddArgs
  \cup {[Timesheet EXCEPT !.project = p] : p \in ProjectChoices}

Today == 3

InitMain ==
  /\ LibIdle
  /\ daily_totals = EmptyDict
  /\ off_days = OffRaised
  /\ cells = NoCells
  /\ today = Today
  /\ MainIdle
  /\ pc = "start"
  /\ \/ /\ args \in AggArgs
        /\ env = EnvOk
        /\ net = AllOk
        /\ \E l \in EntryListsUpTo(MaxEntries) :
             server = [FullServer EXCEPT !.time_entries = l]
     \/ /\ args \in ViewArgs
        /\ env = EnvOk
        /\ net = AllOk
        /\ \E l \in {<<>>, <<DatedEntry>>, <<UndatedEntry>>} :
             server = [FullServer EXCEPT !.time_entries = l]
     \/ /\ args \in CliArgs
        /\ env = EnvOk
        /\ net \in [1..MaxRequests -> BOOLEAN]
        /\ server \in {EmptyServer, FullServer}
     \/ /\ args \in CliArgs
        /\ env \in EnvChoices
        /\ net = AllOk
        /\ server = FullServer

SpecMain == InitMain /\ [][NextMain]_vars

(***************************************************************************)
(* Properties of the duration codec                                        *)
(***************************************************************************)
DropLast(s) == SubSeq(s, 1, Len(s) - 1)
EndsWith(s, c) == s # <<>> /\ s[Len(s)] = c

\* the accepted forms of a duration, as the specification lists them
FormBareInt(s) == IntValid(s)
FormHours(s) == EndsWith(s, "h") /\ FloatValid(DropLast(s))
FormMinutesText(r) == IntValid(r) \/ (EndsWith(r, "m") /\ IntValid(DropLast(r)))
FormHoursMinutes(s) ==
  \E i \in 1..Len(s) :
    /\ s[i] = "h"
    /\ IntValid(SubSeq(s, 1, i - 1))
    /\ FormMinutesText(SubSeq(s, i + 1, Len(s)))
FormMinutes(s) == EndsWith(s, "m") /\ IntValid(DropLast(s))

AcceptedForm(s) ==
  FormBareInt(s) \/ FormHours(s) \/ FormHoursMinutes(s) \/ FormMinutes(s)

\* hours * 60 truncated toward zero, in exact arithmetic
ExactHoursToMinutes(s) ==
  LET parts == Split(Unsigned(Strip(s)), ".")
      fdig  == IF Len(parts) = 2 THEN parts[2] ELSE <<>>
      digs  == RemoveChar(parts[1] \o fdig, "_")
  IN SignOf(Strip(s)) * ((DigitsVal(digs) * 60) \div Pow10(Len(fdig)))

MinutesTextValue(r) == IF IntValid(r) THEN IntValue(r) ELSE IntValue(DropLast(r))

\* the minute count of the first matching form
FormValue(s) ==
  IF FormBareInt(s) THEN IntValue(s)
  ELSE IF FormHours(s) THEN ExactHoursToMinutes(DropLast(s))
  ELSE IF FormHoursMinutes(s)
       THEN LET i == CHOOSE k \in 1..Len(s) :
                       s[k] = "h" /\ \A j \in 1..(k - 1) : s[j] # "h"
            IN IntValue(SubSeq(s, 1, i - 1)) * 60
               + MinutesTextValue(SubSeq(s, i + 1, Len(s)))
  ELSE IntValue(DropLast(s))

\* C2: parse_duration raises the invalid-duration error for every input that
\* matches no accepted form: the empty input, and every input whose hour part
\* or minute residue is empty or not a number; it never returns minutes then.
C2_NoFormRaises ==
  last_call = "parse_duration" /\ ~AcceptedForm(Strip(duration_str))
    => ~parsed.ok

\* C3: parse_duration returns the minute count of the first matching form:
\* bare integer n -> n; "<x>h" -> x * 60 truncated toward zero; "<int>h<rest>"
\* -> int * 60 + rest; "<int>m" -> int.
C3_FirstFormValue ==
  last_call = "parse_duration" /\ AcceptedForm(Strip(duration_str))
    => parsed = Returned(FormValue(Strip(duration_str)))

\* C4: for minutes >= 0, h = minutes div 60 and m = minutes mod 60,
\* format_duration gives "{h}h {m}m" when h > 0 and m > 0, "{h}h" when h > 0
\* and m = 0, "{m}m" when h = 0; 125 -> "2h 5m", 120 -> "2h", 45 -> "45m",
\* 0 -> "0m".
C4_FormatDuration ==
  last_call = "format_duration" =>
    LET h == minutes_in \div 60
        m == minutes_in % 60
    IN /\ h > 0 /\ m > 0 =>
            formatted = NatToStr(h) \o <<"h", " ">> \o NatToStr(m) \o <<"m">>
       /\ h > 0 /\ m = 0 => formatted = NatToStr(h) \o <<"h">>
       /\ h = 0 => formatted = NatToStr(m) \o <<"m">>
       /\ minutes_in = 125 => formatted = <<"2", "h", " ", "5", "m">>
       /\ minutes_in = 120 => formatted = <<"2", "h">>
       /\ minutes_in = 45 => formatted = <<"4", "5", "m">>
       /\ minutes_in = 0 => formatted = <<"0", "m">>

C4_Witness ==
  /\ last_call = "format_duration"
  /\ minutes_in = 125
  /\ formatted = <<"2", "h", " ", "5", "m">>

\* C5: round trip: for minutes >= 0, parse_duration applied to
\* format_duration(minutes) with its space removed returns minutes.
C5_RoundTrip ==
  last_call = "parse_formatted" => parsed = Returned(minutes_in)

C5_Witness ==
  /\ last_call = "parse_formatted"
  /\ minutes_in = 125
  /\ duration_str = <<"2", "h", "5", "m">>
  /\ parsed = Returned(125)

(***************************************************************************)
(* Properties of the name resolver                                         *)
(***************************************************************************)
ExactMatches ==
  {i \in 1..Len(candidates) : Lower(candidates[i].name) = Lower(query)}
PartialMatches ==
  {i \in 1..Len(candidates) :
     IsSubstring(Lower(query), Lower(candidates[i].name))}

\* C6: name resolution returns the id of the first candidate whose name
\* equals the query case-insensitively, even after an earlier candidate that
\* only contains it; else the id of the first candidate in list order whose
\* name contains the query case-insensitively; else None.
C6_NameResolution ==
  last_call \in {"find_project_by_name", "find_service_by_name"} =>
    /\ ExactMatches # {} =>
         found = Some(candidates[SetMin(ExactMatches)].id)
    /\ ExactMatches = {} /\ PartialMatches # {} =>
         found = Some(candidates[SetMin(PartialMatches)].id)
    /\ PartialMatches = {} => found = NoneVal
    /\ candidates = <<[name |-> AcmeCorp, id |-> 1], [name |-> AcmeInc, id |-> 2]>>
       /\ query \in { <<"a", "c", "m", "e", " ", "c", "o", "r", "p">>,
                      <<"a", "c", "m", "e">> }
       => found = Some(1)

\* an exact match found after a candidate that only contains the query
C6_Witness ==
  /\ last_call = "find_project_by_name"
  /\ candidates = <<[name |-> AcmeCorp, id |-> 1],
                    [name |-> <<"A", "C", "M", "E">>, id |-> 2]>>
  /\ query = <<"a", "c", "m", "e">>
  /\ found = Some(2)

(***************************************************************************)
(* Properties of the off-day computation                                   *)
(***************************************************************************)
IsAscending(seq) == \A i \in 1..(Len(seq) - 1) : seq[i] < seq[i + 1]
Elements(seq) == {seq[i] : i \in 1..Len(seq)}

\* C7: for daily_totals keyed by dates, find_off_days returns, in ascending
\* order, exactly the days d with start <= d <= end, start the earliest key,
\* end the earlier of the latest key and today, d a Monday-to-Friday day and
\* d no key of daily_totals; empty when daily_totals is empty or all its
\* dates are after today.
C7_OffDays ==
  last_call = "find_off_days" /\ (\A d \in DOMAIN daily_totals : d # NA_DATE)
    => /\ off_days.ok
       /\ IsAscending(off_days.val)
       /\ IF DOMAIN daily_totals = {} THEN off_days.val = <<>>
          ELSE LET start == SetMin(DOMAIN daily_totals)
                   last  == SetMax(DOMAIN daily_totals)
                   end   == IF last < today THEN last ELSE today
               IN /\ Elements(off_days.val) =
                       {d \in start..end : /\ Weekday(d) \in {0, 1, 2, 3, 4}
                                           /\ d \notin DOMAIN daily_totals}
                  /\ start > today => off_days.val = <<>>

\* entries on Monday 6, Wednesday 8 and Friday 10 January 2025: Tuesday and
\* Thursday are the off days
C7_Witness ==
  /\ last_call = "find_off_days"
  /\ DOMAIN daily_totals = {5, 7, 9}
  /\ today = 10
  /\ off_days = [ok |-> TRUE, val |-> <<6, 8>>]

(***************************************************************************)
(* Timesheet aggregation                                                   *)
(***************************************************************************)
RECURSIVE SumValues(_)
SumValues(d) ==
  IF DOMAIN d = {} THEN 0
  ELSE LET k == CHOOSE x \in DOMAIN d : TRUE
       IN d[k] + SumValues([x \in DOMAIN d \ {k} |-> d[x]])

RECURSIVE SumMinutes(_)
SumMinutes(list) ==
  IF list = <<>> THEN 0
  ELSE (IF Head(list).minutes.some THEN Head(list).minutes.val ELSE 0)
       + SumMinutes(Tail(list))

AfterLoop == entries # <<>> /\ idx = Len(entries)

\* C1: after the aggregation loop the values of daily_totals, of
\* project_totals and of service_totals each add up to total_minutes, which
\* is the sum of the entries' minutes (a missing minutes counting 0), also
\* when date, project or service are missing and defaulted.
C1_TotalsAgree ==
  AfterLoop =>
    /\ total_minutes = SumMinutes(entries)
    /\ SumValues(daily_totals) = total_minutes
    /\ SumValues(project_totals) = total_minutes
    /\ SumValues(service_totals) = total_minutes

\* two entries without a date share the key 'N/A', one of them without a
\* project
C1_Witness ==
  /\ AfterLoop
  /\ Len(entries) = 2
  /\ ~entries[1].date_at.some /\ ~entries[2].date_at.some
  /\ ~entries[1].project_name.some /\ entries[2].project_name.some
  /\ daily_totals = [d \in {NA_DATE} |-> 90]
  /\ Cardinality(DOMAIN project_totals) = 2
  /\ total_minutes = 90

(***************************************************************************)
(* Network failures                                                        *)
(***************************************************************************)
ResultTokens ==
  {"projects_list", "no_projects", "services_list", "no_services", "created",
   "not_found", "calendar", "table", "summary", "project_table",
   "service_table"}

\* C8: once a request has failed the invocation is over with exit code 1
\* and has printed no result, and the not-found notice of timesheet is
\* printed only when no request failed.
C8_NetworkFailureAborts ==
  /\ net_failed =>
       /\ pc = "exit"
       /\ exit_code = 1
       /\ Elements(out) \cap ResultTokens = {}
  /\ "not_found" \in Elements(out) => ~net_failed

(***************************************************************************)
(* View selection                                                          *)
(***************************************************************************)
IsView(token) == token \in {"calendar", "table"}

\* C9: a finished timesheet invocation with at least one entry has rendered
\* exactly one view: the calendar when the resolved filter is this_month or
\* last_month or the explicit range spans more than 20 days, the table
\* otherwise.
C9_ExactlyOneView ==
  (args.command = "timesheet" /\ pc = "exit" /\ entries # <<>>) =>
    SelectSeq(out, IsView) =
      << IF \/ at_filter \in {"this_month", "last_month"}
            \/ /\ from_date.some /\ to_date.some
               /\ to_date.val - from_date.val > 20
         THEN "calendar" ELSE "table" >>

\* C10 as stated: with --month no timesheet invocation renders the table,
\* whatever the other flags.
C10_MonthAlwaysCalendar ==
  (args.command = "timesheet" /\ args.month) =>
    \A i \in DOMAIN out : IsView(out[i]) => out[i] = "calendar"

\* C10: with --month, without both --from and --to and without --yesterday,
\* --week and --last-week, every view rendered is the calendar, whatever
\* --today, --last-month and a single --from or --to are.
C10_MonthCalendarUnlessOverridden ==
  ( /\ args.command = "timesheet"
    /\ args.month
    /\ ~(args.from_date.some /\ args.to_date.some)
    /\ ~args.yesterday /\ ~args.week /\ ~args.last_week ) =>
    \A i \in DOMAIN out : IsView(out[i]) => out[i] = "calendar"

C10_Witness ==
  /\ args.command = "timesheet"
  /\ args.month /\ args.today /\ args.last_month
  /\ args.from_date.some /\ ~args.to_date.some
  /\ ~args.yesterday /\ ~args.week /\ ~args.last_week
  /\ at_filter = "this_month"
  /\ "calendar" \in Elements(out)

(***************************************************************************)
(* Monthly calendar                                                        *)
(***************************************************************************)
\* minutes logged on a day: its total, 0 when the day has no entry
Logged(day) == IF day \in DOMAIN daily_totals THEN daily_totals[day] ELSE 0

HasTargetMonth ==
  daily_totals # EmptyDict /\ strptime_ok(SetMin(DOMAIN daily_totals))

\* C11: the calendar has one cell for every day of the month of the
\* earliest date, and the cell's tier follows from the minutes t logged on
\* the day: done for t >= 480, partial for 360 <= t < 480, light for
\* 0 < t < 360, off for t = 0 on a Monday-to-Friday not after today, dim for
\* t = 0 on a weekend or a future day.
C11_CellTiers ==
  (last_call = "display_monthly_calendar" /\ HasTargetMonth) =>
    /\ DOMAIN cells = MonthFirst(SetMin(DOMAIN daily_totals))
                        ..MonthLast(SetMin(DOMAIN daily_totals))
    /\ \A day \in DOMAIN cells :
         /\ Logged(day) >= 480 => cells[day] = "done"
         /\ (360 <= Logged(day) /\ Logged(day) < 480) =>
              cells[day] = "partial"
         /\ (0 < Logged(day) /\ Logged(day) < 360) => cells[day] = "light"
         /\ (Logged(day) = 0 /\ Weekday(day) < 5 /\ day <= today) =>
              cells[day] = "off"
         /\ (Logged(day) = 0 /\ (Weekday(day) >= 5 \/ day > today)) =>
              cells[day] = "dim"

(***************************************************************************)
(* Summary statistics                                                      *)
(***************************************************************************)
\* display_summary_stats was called and main() is over
SummaryDone == pc = "exit" /\ \E i \in DOMAIN out : IsView(out[i])

\* C12: once display_summary_stats is over, the project table has been
\* rendered exactly when project_totals has more than one key, and the
\* service table exactly when service_totals has more than one key, each
\* whatever the other.
C12_BreakdownTables ==
  SummaryDone =>
    /\ "project_table" \in Elements(out)
         <=> Cardinality(DOMAIN project_totals) > 1
    /\ "service_table" \in Elements(out)
         <=> Cardinality(DOMAIN service_totals) > 1

(***************************************************************************)
(* Credentials                                                             *)
(***************************************************************************)
CredentialFields == {"account", "api_key"}

\* the value the environment or the .env file gives a field
EnvValue(f) ==
  IF env.environ[f].some THEN env.environ[f] ELSE env.dotenv[f]

FileReadable == env.file.exists /\ env.file.valid

NeedsCredentials == args.command \in {"list", "add", "timesheet"}

\* C13: for account and for api_key a non-empty environment or .env value
\* is the resolved one, the value of the stored file is taken only when
\* there is no such value; a command other than config that is left
\* without account or api_key ends with exit code 1 and has sent no
\* request; config ends with exit code 0 whatever credentials exist.
C13_Credentials ==
  /\ (NeedsCredentials /\ pc # "start") =>
       /\ \A f \in CredentialFields :
            /\ Truthy(EnvValue(f)) => config[f] = EnvValue(f)
            /\ config[f] # EnvValue(f) =>
                 /\ ~Truthy(EnvValue(f))
                 /\ FileReadable
                 /\ config[f] = env.file[f]
       /\ (~Truthy(config.account) \/ ~Truthy(config.api_key)) =>
            /\ pc = "exit"
            /\ exit_code = 1
            /\ requests = <<>>
  /\ (args.command = "config" /\ pc = "exit") =>
       /\ exit_code = 0
       /\ requests = <<>>
       /\ "credentials_error" \notin Elements(out)

\* environment and file both name an account, the environment's is used
C13_Witness ==
  /\ NeedsCredentials
  /\ pc = "exit"
  /\ FileReadable
  /\ Truthy(env.file.account)
  /\ Truthy(env.environ.account)
  /\ env.file.account # env.environ.account
  /\ config.account = env.environ.account
  /\ requests # <<>>

(***************************************************************************)
(* Order of the add command                                                *)
(***************************************************************************)
CreateCount ==
  Cardinality({i \in DOMAIN requests : requests[i] = "create_time_entry"})

InvalidDuration == ~AcceptedForm(Strip(args.duration))

\* --date was given and is no YYYY-MM-DD date
BadDate == args.date.some /\ args.date.val \in {NA_DATE, EMPTY_DATE}

\* a non-numeric name that no item of the list matches
NameNotFound(arg, list) ==
  /\ Truthy(arg)
  /\ ~IntValid(arg.val)
  /\ \A i \in DOMAIN list : ~IsSubstring(Lower(arg.val), Lower(list[i].name))

ProjectNotFound == NameNotFound(args.project, server.projects)
ServiceNotFound == NameNotFound(args.service, server.services)

\* C14: add sends the create request at most once, as its last request and
\* only when duration, date, project and service are all valid; the lookups
\* come after the duration and date checks and the service lookup after the
\* project lookup; with an invalid duration, a date that is not YYYY-MM-DD
\* or a name that is not found the invocation ends with exit code 1.
C14_CreateAfterValidation ==
  args.command = "add" =>
    /\ CreateCount <= 1
    /\ CreateCount = 1 =>
         /\ requests[Len(requests)] = "create_time_entry"
         /\ ~InvalidDuration /\ ~BadDate
         /\ ~ProjectNotFound /\ ~ServiceNotFound
    /\ requests # <<>> => ~InvalidDuration /\ ~BadDate
    /\ "get_services" \in Elements(requests) => ~ProjectNotFound
    /\ ( /\ pc = "exit"
         /\ InvalidDuration \/ BadDate \/ ProjectNotFound \/ ServiceNotFound )
         => exit_code = 1 /\ CreateCount = 0

(***************************************************************************)
(* Completion of the timesheet command                                     *)
(***************************************************************************)
\* C15: a timesheet invocation that fetched at least one entry ends without
\* an exception and with exit code 0, having rendered a view and then the
\* summary, also when fields of the entries are missing and defaulted and
\* when total_minutes is 0 with several projects or services.
C15_TimesheetCompletes ==
  (args.command = "timesheet" /\ pc = "exit" /\ entries # <<>>) =>
    /\ ~raised
    /\ exit_code = 0
    /\ \E i \in DOMAIN out :
         /\ IsView(out[i])
         /\ \E j \in DOMAIN out : j > i /\ out[j] = "summary"

====
